---------------------------- MODULE Spec2Model ----------------------------
(***************************************************************************)
(* A model of the chat bot (src/main.py) and of its keep-alive companion   *)
(* (src/keep_alive.py).                                                    *)
(*                                                                         *)
(* Strings that the program compares or uses as keys (isoformat            *)
(* timestamps, strftime dates, the report-request key) are sequences of    *)
(* character codes, compared the way Python compares str values.           *)
(*                                                                         *)
(* Files are modelled by what a later open()/json.load()/read() sees:      *)
(* a file is absent (not in the DOMAIN of the directory), holds what a     *)
(* completed write left (ok = TRUE), or holds the truncated remains of a   *)
(* write that failed after open(..., "w") emptied it (ok = FALSE).  A read *)
(* fails exactly when the file holds such remains.                         *)
(***************************************************************************)
EXTENDS Integers, Sequences, FiniteSets, TLC

\* ------------------------------------------------------------------ bounds
MaxDay == 2
MaxLog == 2
MaxReports == 1
MaxOk == 7
MaxUpdates == 3
MaxInFlight == 2
MaxExchanges == 6

\* ------------------------------------------------------ program constants
ReportLimit == 5
MaxContext == 10
SleepMinutes == 14

Users == {1, 2}

VARIABLES
    now,              \* the wall clock, <<day, hour, minute, second, microsecond>>
    dialogs,          \* dialogs/dialogs_<date>.json : filename -> file
    hourly_reports,   \* reports/hourly_report_<HH>.txt : hour string -> file
    logCalls,         \* how many log_message calls were made so far
    reportRuns,       \* how many times create_hourly_report ran so far
    lastRun,          \* history: "written" or "failed" in the state create_hourly_report
                      \* leaves, "none" once the clock or the log moved on
    daily_report,     \* reports/daily_report.txt : {} or "daily_report.txt" -> file
    report_requests,  \* report_requests : key string -> count (a defaultdict)
    okCount,          \* history: <<user, day>> -> /ok requests received
    okServed,         \* history: <<user, day>> -> /ok requests not answered with the limit message
    lastOk,           \* history: the last /ok request and its answer
    user_contexts,    \* user_contexts : user -> list of turns (a defaultdict of lists)
    handlers,         \* the handler invocations suspended at an await : update id -> frame
    nextId,           \* the id of the next update
    finished,         \* history: the handler invocation that returned last
    fullHistory,      \* history: user -> every turn appended since the user's last /clear
    answered,         \* history: the updates whose LLM call returned an answer
    lastClear,        \* history: the last /clear
    cleared,          \* history: user -> turns dropped by a /clear not yet followed by a message, or -1
    lastCall,         \* history: the last get_gemini_response call
    WEBHOOK_URL,      \* keep_alive.py: the environment variable, once read
    kaPc,             \* keep_alive.py: where the process is
    kaMinute,         \* keep_alive.py: the minute of the day its clock shows
    kaGets,           \* history: the GETs issued since the last sleep
    kaRequested,      \* history: a GET was issued
    kaLast            \* history: how the last GET ended

reportVars == <<dialogs, hourly_reports, logCalls, reportRuns, lastRun>>
quotaVars == <<daily_report, report_requests, okCount, okServed, lastOk>>
chatVars == <<user_contexts, handlers, nextId, finished, fullHistory, answered,
              lastClear, cleared, lastCall>>

kaVars == <<WEBHOOK_URL, kaPc, kaMinute, kaGets, kaRequested, kaLast>>

vars == <<now, reportVars, quotaVars, chatVars, kaVars>>

\* ---------------------------------------------------------------- strings
\* Character codes of the characters the program's strings are made of.
Digit(n) == 48 + n
Dash == 45
Dot == 46
Colon == 58
LetterT == 84
Underscore == 95

\* Python's str < str: lexicographic by code point, a proper prefix is smaller.
StrLess(a, b) ==
    \E i \in 1..(Len(b)) :
        /\ \A j \in 1..(i - 1) : j <= Len(a) /\ a[j] = b[j]
        /\ \/ i = Len(a) + 1
           \/ i <= Len(a) /\ a[i] < b[i]

StrLessEq(a, b) == a = b \/ StrLess(a, b)

\* %02d and %06d
Pad2(n) == <<Digit(n \div 10), Digit(n % 10)>>

Pad6(n) ==
    <<Digit(n \div 100000), Digit((n \div 10000) % 10), Digit((n \div 1000) % 10),
      Digit((n \div 100) % 10), Digit((n \div 10) % 10), Digit(n % 10)>>

\* str(int) for a non-negative integer
RECURSIVE DecStr(_)
DecStr(n) == IF n < 10 THEN <<Digit(n)>> ELSE DecStr(n \div 10) \o <<Digit(n % 10)>>

\* ------------------------------------------------------------------ clock
\* The model's days are the days 2024-01-01 .. of one month.
YearMonth == <<Digit(2), Digit(0), Digit(2), Digit(4), Dash, Digit(0), Digit(1), Dash>>

Hours == {22, 23}

\* The instants the clock is read at: the first microsecond of an hour (isoformat
\* without a fraction), later in its first second, and its last microsecond.
Instants ==
    {<<d, h, ms[1], ms[1], ms[2]>> :
        d \in 1..MaxDay, h \in Hours, ms \in {<<0, 0>>, <<0, 999999>>, <<59, 999999>>}}

RECURSIVE TupleLess(_, _)
TupleLess(a, b) ==
    /\ a # <<>>
    /\ \/ Head(a) < Head(b)
       \/ Head(a) = Head(b) /\ TupleLess(Tail(a), Tail(b))

\* datetime < datetime
TimeLess(a, b) == TupleLess(a, b)

TimeLessEq(a, b) == a = b \/ TimeLess(a, b)

\* datetime.strftime("%Y-%m-%d")
StrfDate(t) == YearMonth \o Pad2(t[1])

\* datetime.strftime("%H")
StrfHour(t) == Pad2(t[2])

\* datetime.isoformat(): the fraction is left out when microsecond is 0
IsoFormat(t) ==
    StrfDate(t) \o <<LetterT>> \o Pad2(t[2]) \o <<Colon>> \o Pad2(t[3]) \o <<Colon>>
        \o Pad2(t[4]) \o (IF t[5] = 0 THEN <<>> ELSE <<Dot>> \o Pad6(t[5]))

\* now.replace(minute=0, second=0, microsecond=0)
HourStartKeepsMicrosecond(t) == <<t[1], t[2], 0, 0, t[5]>>

HourStart(t) == <<t[1], t[2], 0, 0, 0>>

\* t + timedelta(hours=1), for t at the start of an hour
PlusOneHour(t) == IF t[2] = 23 THEN <<t[1] + 1, 0, t[3], t[4], t[5]>>
                  ELSE <<t[1], t[2] + 1, t[3], t[4], t[5]>>

\* ------------------------------------------------------------------ files
IoOutcomes == {"ok", "open_fails", "write_fails"}

\* What a write of `content` leaves at `name`: open(name, "w") truncates the file
\* before anything is written.
WriteFile(dir, name, content, io) ==
    CASE io = "ok" -> [n \in DOMAIN dir \cup {name} |->
                          IF n = name THEN [ok |-> TRUE, data |-> content] ELSE dir[n]]
      [] io = "open_fails" -> dir
      [] io = "write_fails" -> [n \in DOMAIN dir \cup {name} |->
                          IF n = name THEN [ok |-> FALSE, data |-> <<>>] ELSE dir[n]]

\* The entries a reader finds in a log file.
FileEntries(dir, name) ==
    IF name \in DOMAIN dir /\ dir[name].ok THEN dir[name].data ELSE <<>>

\* ----------------------------------------------------------- log_message
DialogsFile(t) == StrfDate(t)

LogEntry(user_id, text) ==
    [timestamp |-> IsoFormat(now), user_id |-> user_id, message_text |-> text]

\* The directory after log_message(user_id, .., text); io is what the disk does.
LogMessageResult(user_id, text, io) ==
    LET filename == DialogsFile(now)
    IN  IF filename \in DOMAIN dialogs /\ ~dialogs[filename].ok
        THEN dialogs                       \* json.load raises, caught: nothing is written
        ELSE WriteFile(dialogs, filename,
                       Append(FileEntries(dialogs, filename), LogEntry(user_id, text)), io)

log_message(user_id, text, io) ==
    LET filename == DialogsFile(now)
        after == LogMessageResult(user_id, text, io)
    IN  /\ dialogs' = after
        /\ logCalls' = logCalls + 1
        /\ lastRun' = "none"

\* ---------------------------------------------------------------- reports
get_today_dialogs ==
    LET filename == DialogsFile(now)
    IN  IF filename \notin DOMAIN dialogs THEN <<>>
        ELSE IF dialogs[filename].ok THEN dialogs[filename].data
        ELSE <<>>                          \* json.load raises, bare except: []

\* The part of the analysis that counts; themes and questions depend on the text only.
analyze_messages_locally(messages) ==
    IF messages = <<>> THEN [total |-> 0, users |-> 0]
    ELSE [total |-> Len(messages),
          users |-> Cardinality({messages[i].user_id : i \in 1..Len(messages)})]

InHourWindow(ts, hour_start, hour_end) ==
    StrLessEq(IsoFormat(hour_start), ts) /\ StrLess(ts, IsoFormat(hour_end))

HourlyMessages(messages, t) ==
    LET hour_start == HourStart(t)
        hour_end == PlusOneHour(hour_start)
    IN  SelectSeq(messages, LAMBDA m : InHourWindow(m.timestamp, hour_start, hour_end))

create_hourly_report(io) ==
    LET hour == StrfHour(now)
        messages == get_today_dialogs
        analysis == analyze_messages_locally(HourlyMessages(messages, now))
    IN  /\ hourly_reports' = WriteFile(hourly_reports, hour, analysis, io)
        /\ reportRuns' = reportRuns + 1
        /\ lastRun' = IF io = "ok" THEN "written" ELSE "failed"

\* -------------------------------------------------------------- /ok quota
\* f"{user_id}_{today}"
ReportKeyWithoutDate(user_id, today) == DecStr(user_id)

ReportKey(user_id, today) == DecStr(user_id) \o <<Underscore>> \o today

\* dict.get(key, 0)
GetCount(d, key) == IF key \in DOMAIN d THEN d[key] ELSE 0

\* d[key] = value
SetItem(d, key, value) == [k \in DOMAIN d \cup {key} |-> IF k = key THEN value ELSE d[k]]

OverLimitFromTheFifth(count) == count >= ReportLimit

OverLimit(count) == count > ReportLimit

DailyReportFile == "daily_report.txt"

\* The handler runs from its start to its only await, the reply, without suspending.
\* decodes: whether read() can decode what a failed write left of the report.
ok_command(user_id, decodes) ==
    LET key == ReportKey(user_id, StrfDate(now))
        count == GetCount(report_requests, key) + 1
        k == <<user_id, now[1]>>
        reply == IF OverLimit(count) THEN "limit"
                 ELSE IF DailyReportFile \notin DOMAIN daily_report THEN "not_created"
                 ELSE IF daily_report[DailyReportFile].ok \/ decodes THEN "report"
                 ELSE "read_error"
    IN  /\ report_requests' = SetItem(report_requests, key, count)
        /\ okCount' = [okCount EXCEPT ![k] = @ + 1]
        /\ okServed' = [okServed EXCEPT ![k] = IF reply = "limit" THEN @ ELSE @ + 1]
        /\ lastOk' = [user |-> user_id, day |-> now[1], nth |-> okCount[k] + 1,
                      reply |-> reply, touched_file |-> ~OverLimit(count)]
        /\ UNCHANGED daily_report

\* create_daily_report_with_api writes the day's totals; the summary text it asks the
\* LLM for does not enter any state the handlers read.
create_daily_report_with_api(io) ==
    daily_report' = WriteFile(daily_report, DailyReportFile,
                              analyze_messages_locally(get_today_dialogs), io)

\* -------------------------------------------------------- conversation
UserTurn(id) == [role |-> "user", parts |-> id]

AssistantTurn(id) == [role |-> "assistant", parts |-> id]

\* user_contexts[user_id][-10:] when the list is longer than 10
TrimContext(context) ==
    IF Len(context) > MaxContext
    THEN SubSeq(context, Len(context) - MaxContext + 1, Len(context))
    ELSE context

\* The list get_gemini_response appends to: the one stored when it runs, not the one
\* stored when its handler started (seen).
ContextSeenAtStart(stored, seen) == seen

ContextAtCall(stored, seen) == stored

\* user_contexts[user_id][:-1]
HistoryOf(context) == SubSeq(context, 1, Len(context) - 1)

\* get_gemini_response has no await: generate_content is a blocking call, so the
\* two appends and the trim run without another handler in between.
get_gemini_response(id, llm_ok) ==
    LET user_id == handlers[id].user
        base == ContextAtCall(user_contexts[user_id], handlers[id].seen)
        asked == TrimContext(Append(base, UserTurn(id)))
        after == IF llm_ok THEN Append(asked, AssistantTurn(id)) ELSE asked
    IN  /\ user_contexts' = [user_contexts EXCEPT ![user_id] = after]
        /\ fullHistory' = [fullHistory EXCEPT ![user_id] =
                              IF llm_ok THEN @ \o <<UserTurn(id), AssistantTurn(id)>>
                              ELSE Append(@, UserTurn(id))]
        /\ answered' = IF llm_ok THEN answered \cup {id} ELSE answered
        /\ lastCall' = [user |-> user_id, history |-> HistoryOf(asked),
                        after_clear |-> cleared[user_id]]
        /\ cleared' = [cleared EXCEPT ![user_id] = -1]

GeminiReply(llm_ok) == IF llm_ok THEN "answer" ELSE "llm_error"

\* user_contexts[user_id] = []
ClearsEveryContext(contexts, user_id) == [u \in DOMAIN contexts |-> <<>>]

ClearedContexts(contexts, user_id) == [contexts EXCEPT ![user_id] = <<>>]

clear_command(user_id) ==
    /\ user_contexts' = ClearedContexts(user_contexts, user_id)
    /\ fullHistory' = [fullHistory EXCEPT ![user_id] = <<>>]
    /\ lastClear' = [n |-> lastClear.n + 1, user |-> user_id]
    /\ cleared' = [cleared EXCEPT ![user_id] = Len(user_contexts[user_id])]

\* ------------------------------------------------------ image generation
\* The POST that asks for the picture: it raises, answers with a status other than
\* 200, answers 200 without a url, or answers 200 with the url of the picture.
PostOutcomes == {"exception", "status_error", "no_url", "url"}

\* The GET of that url, issued only after a url came back: it raises, or answers
\* with the picture, with an error status and a body, or with an empty body.
GetOutcomes(post) ==
    IF post = "url" THEN {"exception", "image", "status_error_body", "empty_body"}
    ELSE {"not_issued"}

\* What generate_image_via_nanobana returns: the status of the POST is checked, the
\* status of the GET is not, its content is returned as it is.
generate_image_via_nanobana(post, get) ==
    IF post = "url" /\ get # "exception"
    THEN (IF get = "empty_body" THEN "empty_bytes" ELSE get)
    ELSE "None"

ImageCallFailed(post, get) ==
    post \in {"exception", "status_error"} \/ get \in {"exception", "status_error_body"}

\* ---------------------------------------------------------------- frames
\* A handler invocation between two awaits.  replies: what it sent to the user;
\* external: how its last external calls ended; failed: an external call of it
\* raised or returned an error status; entries: the
\* log entries it appended; calls_before_log: the external calls (LLM, image API,
\* download) it issued before it called log_message.
NewFrame(kind, user_id, image) ==
    [kind |-> kind, user |-> user_id, image |-> image, pc |-> "typing",
     seen |-> user_contexts[user_id], replies |-> <<>>, external |-> <<>>,
     failed |-> FALSE,
     entries |-> 0, calls_before_log |-> 0]

\* log_message as a handler calls it; whether the call appended its entry
Appended(user_id, text) ==
    LET filename == DialogsFile(now)
    IN  IF FileEntries(LogMessageResult(user_id, text, "ok"), filename)
             = Append(FileEntries(dialogs, filename), LogEntry(user_id, text))
        THEN 1 ELSE 0

Suspend(id, frame) ==
    handlers' = [h \in DOMAIN handlers \cup {id} |-> IF h = id THEN frame ELSE handlers[h]]

\* The handler returns after its last await, the reply.
Return(id, frame) ==
    /\ handlers' = [h \in DOMAIN handlers \ {id} |-> handlers[h]]
    /\ finished' = [kind |-> frame.kind, replies |-> frame.replies,
                    external |-> frame.external, failed |-> frame.failed,
                    entries |-> frame.entries,
                    calls_before_log |-> frame.calls_before_log]

Replied(frame, reply, external, failed) ==
    [frame EXCEPT !.replies = Append(@, reply), !.external = external,
                  !.failed = @ \/ failed, !.pc = "done"]

ghostChat == <<fullHistory, answered, lastCall>>

\* ----------------------------------------------------------- handle_message
\* up to `await update.message.chat.send_action("typing")`
\* images: what is_image_generation_request may say of the texts that arrive
HandleMessageStart(limit, images) ==
    /\ nextId <= limit
    /\ Cardinality(DOMAIN handlers) < MaxInFlight
    /\ \E u \in Users, image \in images :
          LET text == <<"text", nextId>>
          IN  /\ log_message(u, text, "ok")
              /\ Suspend(nextId, [NewFrame("text", u, image) EXCEPT
                                     !.entries = Appended(u, text)])
    /\ nextId' = nextId + 1
    /\ UNCHANGED <<now, kaVars, hourly_reports, reportRuns, quotaVars, user_contexts,
                   finished, ghostChat, lastClear, cleared>>

\* an ordinary text: get_gemini_response and the reply
HandleMessageAnswer ==
    /\ \E id \in DOMAIN handlers, llm_ok \in BOOLEAN :
          /\ handlers[id].kind = "text" /\ handlers[id].pc = "typing" /\ ~handlers[id].image
          /\ get_gemini_response(id, llm_ok)
          /\ Return(id, Replied(handlers[id], GeminiReply(llm_ok), <<"llm", llm_ok>>, ~llm_ok))
    /\ UNCHANGED <<now, kaVars, reportVars, quotaVars, nextId, lastClear>>

\* a request for a picture: up to `await update.message.chat.send_action("upload_photo")`
HandleMessageUpload ==
    /\ \E id \in DOMAIN handlers :
          /\ handlers[id].kind = "text" /\ handlers[id].pc = "typing" /\ handlers[id].image
          /\ Suspend(id, [handlers[id] EXCEPT !.pc = "upload_photo"])
    /\ UNCHANGED <<now, kaVars, reportVars, quotaVars, user_contexts, nextId, finished, ghostChat,
                   lastClear, cleared>>

\* generate_image_via_nanobana (no await inside) and the reply
HandleMessageImage ==
    /\ \E id \in DOMAIN handlers, post \in PostOutcomes :
        \E get \in GetOutcomes(post) :
          /\ handlers[id].kind = "text" /\ handlers[id].pc = "upload_photo"
          /\ LET image_bytes == generate_image_via_nanobana(post, get)
                 reply == IF image_bytes \in {"None", "empty_bytes"} THEN "image_error"
                          ELSE "photo_reply"
             IN  Return(id, Replied(handlers[id], reply, <<"post", post, "get", get>>,
                                    ImageCallFailed(post, get)))
    /\ UNCHANGED <<now, kaVars, reportVars, quotaVars, user_contexts, nextId, ghostChat,
                   lastClear, cleared>>

\* ------------------------------------------------------------- handle_photo
HandlePhotoStart ==
    /\ nextId <= MaxUpdates
    /\ Cardinality(DOMAIN handlers) < MaxInFlight
    /\ \E u \in Users :
          LET text == <<"photo", nextId>>
          IN  /\ log_message(u, text, "ok")
              /\ Suspend(nextId, [NewFrame("photo", u, FALSE) EXCEPT
                                     !.entries = Appended(u, text)])
    /\ nextId' = nextId + 1
    /\ UNCHANGED <<now, kaVars, hourly_reports, reportRuns, quotaVars, user_contexts,
                   finished, ghostChat, lastClear, cleared>>

\* `await context.bot.get_file(...)`, `await photo_file.download_as_bytearray()`
Awaits(kind, pc, next) ==
    /\ \E id \in DOMAIN handlers :
          /\ handlers[id].kind = kind /\ handlers[id].pc = pc
          /\ Suspend(id, [handlers[id] EXCEPT !.pc = next])
    /\ UNCHANGED <<now, kaVars, reportVars, quotaVars, user_contexts, nextId, finished, ghostChat,
                   lastClear, cleared>>

\* get_file or the download raised: the except branch replies
Raises(kind, pc, reply) ==
    /\ \E id \in DOMAIN handlers :
          /\ handlers[id].kind = kind /\ handlers[id].pc = pc
          /\ Return(id, Replied(handlers[id], reply, <<pc, "raised">>, TRUE))
    /\ UNCHANGED <<now, kaVars, reportVars, quotaVars, user_contexts, nextId, ghostChat,
                   lastClear, cleared>>

HandlePhotoGetFile == Awaits("photo", "typing", "get_file")

HandlePhotoDownload == Awaits("photo", "get_file", "download")

HandlePhotoGetFileRaises == Raises("photo", "get_file", "photo_error")

HandlePhotoDownloadRaises == Raises("photo", "download", "photo_error")

HandlePhotoAnswer ==
    /\ \E id \in DOMAIN handlers, llm_ok \in BOOLEAN :
          /\ handlers[id].kind = "photo" /\ handlers[id].pc = "download"
          /\ get_gemini_response(id, llm_ok)
          /\ Return(id, Replied(handlers[id], GeminiReply(llm_ok), <<"llm", llm_ok>>, ~llm_ok))
    /\ UNCHANGED <<now, kaVars, reportVars, quotaVars, nextId, lastClear>>

\* ------------------------------------------------------------- handle_voice
\* up to `await update.message.chat.send_action("typing")`: nothing is logged yet
HandleVoiceStart ==
    /\ nextId <= MaxUpdates
    /\ Cardinality(DOMAIN handlers) < MaxInFlight
    /\ \E u \in Users : Suspend(nextId, NewFrame("voice", u, FALSE))
    /\ nextId' = nextId + 1
    /\ UNCHANGED <<now, kaVars, reportVars, quotaVars, user_contexts, finished, ghostChat,
                   lastClear, cleared>>

HandleVoiceGetFile == Awaits("voice", "typing", "get_file")

HandleVoiceDownload == Awaits("voice", "get_file", "download")

HandleVoiceGetFileRaises == Raises("voice", "get_file", "voice_error")

\* the download raised, or generate_content or response.text did after it
HandleVoiceDownloadRaises == Raises("voice", "download", "voice_error")

\* the transcription came back: it is logged and sent
HandleVoiceTranscribed ==
    /\ \E id \in DOMAIN handlers :
          /\ handlers[id].kind = "voice" /\ handlers[id].pc = "download"
          /\ LET text == <<"voice", id>>
                 frame == [handlers[id] EXCEPT !.entries = Appended(handlers[id].user, text),
                                               !.calls_before_log = 2]
             IN  /\ log_message(handlers[id].user, text, "ok")
                 /\ Return(id, Replied(frame, "transcript", <<"llm", TRUE>>, FALSE))
    /\ UNCHANGED <<now, kaVars, hourly_reports, reportRuns, quotaVars, user_contexts,
                   nextId, ghostChat, lastClear, cleared>>

\* ----------------------------------------------------------------- commands
\* clear_command and ok_command change the state before their only await, the reply.
ClearCommand(limit) ==
    /\ nextId <= limit
    /\ \E u \in Users : clear_command(u)
    /\ nextId' = nextId + 1
    /\ UNCHANGED <<now, kaVars, reportVars, quotaVars, handlers, finished, answered, lastCall>>

OkUpdate ==
    /\ nextId <= MaxUpdates
    /\ \E u \in Users : ok_command(u, TRUE)
    /\ nextId' = nextId + 1
    /\ UNCHANGED <<now, kaVars, reportVars, user_contexts, handlers, finished, ghostChat,
                   lastClear, cleared>>

\* ------------------------------------------------------------- keep_alive
MinutesPerDay == 24 * 60

GetResults == {"200", "other_status", "exception"}

\* Where keep_alive goes after the try/except around requests.get
AfterGetStopsOnException(result) == IF result = "exception" THEN "returned" ELSE "sleep"

AfterGet(result) == "sleep"

\* WEBHOOK_URL = os.getenv("WEBHOOK_URL")
KeepAliveImport ==
    /\ kaPc = "import"
    /\ WEBHOOK_URL' \in {"None", "url"}
    /\ kaPc' = "keep_alive"
    /\ UNCHANGED <<now, reportVars, quotaVars, chatVars, kaMinute, kaGets, kaRequested, kaLast>>

\* if not WEBHOOK_URL: return
KeepAliveEnter ==
    /\ kaPc = "keep_alive"
    /\ kaPc' = IF WEBHOOK_URL = "None" THEN "returned" ELSE "get"
    /\ UNCHANGED <<now, reportVars, quotaVars, chatVars, WEBHOOK_URL, kaMinute, kaGets,
                   kaRequested, kaLast>>

\* requests.get(WEBHOOK_URL, timeout=30) and the line printed for its result
KeepAliveGet ==
    /\ kaPc = "get"
    /\ \E result \in GetResults :
          /\ kaLast' = result
          /\ kaPc' = AfterGet(result)
    /\ kaGets' = kaGets + 1
    /\ kaRequested' = TRUE
    /\ UNCHANGED <<now, reportVars, quotaVars, chatVars, WEBHOOK_URL, kaMinute>>

\* time.sleep(14 * 60)
KeepAliveSleep ==
    /\ kaPc = "sleep"
    /\ kaMinute' = (kaMinute + SleepMinutes) % MinutesPerDay
    /\ kaGets' = 0
    /\ kaPc' = "get"
    /\ UNCHANGED <<now, reportVars, quotaVars, chatVars, WEBHOOK_URL, kaRequested, kaLast>>

\* ---------------------------------------------------------------- actions
\* The instant of Instants that follows t.
NextInstant(t) ==
    IF t[3] = 0 /\ t[5] = 0 THEN <<t[1], t[2], 0, 0, 999999>>
    ELSE IF t[3] = 0 THEN <<t[1], t[2], 59, 59, 999999>>
    ELSE IF \E h \in Hours : h > t[2]
         THEN <<t[1], CHOOSE h \in Hours : h > t[2] /\ \A g \in Hours : g > t[2] => h <= g,
                0, 0, 0>>
         ELSE <<t[1] + 1, CHOOSE h \in Hours : \A g \in Hours : h <= g, 0, 0, 0>>

\* The clock moves on to the next instant it is read at.
Tick ==
    /\ NextInstant(now) \in Instants
    /\ now' = NextInstant(now)
    /\ lastRun' = "none"
    /\ UNCHANGED <<dialogs, hourly_reports, logCalls, reportRuns, quotaVars, chatVars, kaVars>>

RECURSIVE SumOver(_, _)
SumOver(f, S) ==
    IF S = {} THEN 0 ELSE LET k == CHOOSE x \in S : TRUE IN f[k] + SumOver(f, S \ {k})

OkCommand ==
    /\ SumOver(okCount, DOMAIN okCount) < MaxOk
    /\ \E u \in Users, decodes \in BOOLEAN :
          /\ decodes \/ (DailyReportFile \in DOMAIN daily_report
                          /\ ~daily_report[DailyReportFile].ok
                          /\ ~OverLimit(GetCount(report_requests, ReportKey(u, StrfDate(now))) + 1))
          /\ ok_command(u, decodes)
    /\ UNCHANGED <<now, kaVars, reportVars, chatVars>>

scheduled_daily_report ==
    /\ \E io \in IoOutcomes : create_daily_report_with_api(io)
    /\ UNCHANGED <<now, kaVars, reportVars, report_requests, okCount, okServed, lastOk, chatVars>>

LogMessage ==
    /\ logCalls < MaxLog
    /\ \E u \in Users, io \in IoOutcomes : log_message(u, "text", io)
    /\ UNCHANGED <<now, kaVars, hourly_reports, reportRuns, quotaVars, chatVars>>

scheduled_hourly_report ==
    /\ reportRuns < MaxReports
    /\ \E io \in IoOutcomes : create_hourly_report(io)
    /\ UNCHANGED <<now, kaVars, dialogs, logCalls, quotaVars, chatVars>>

Init ==
    /\ now = <<1, 22, 0, 0, 0>>
    /\ dialogs = <<>>
    /\ hourly_reports = <<>>
    /\ logCalls = 0
    /\ reportRuns = 0
    /\ lastRun = "none"
    /\ daily_report = <<>>
    /\ report_requests = <<>>
    /\ okCount = [k \in Users \X (1..MaxDay) |-> 0]
    /\ okServed = [k \in Users \X (1..MaxDay) |-> 0]
    /\ lastOk = [user |-> 0, day |-> 0, nth |-> 0, reply |-> "none", touched_file |-> FALSE]
    /\ user_contexts = [u \in Users |-> <<>>]
    /\ handlers = <<>>
    /\ nextId = 1
    /\ finished = [kind |-> "none", replies |-> <<>>, external |-> <<>>, failed |-> FALSE,
                   entries |-> 0, calls_before_log |-> 0]
    /\ fullHistory = [u \in Users |-> <<>>]
    /\ answered = {}
    /\ lastClear = [n |-> 0, user |-> 0]
    /\ cleared = [u \in Users |-> -1]
    /\ lastCall = [user |-> 0, history |-> <<>>, after_clear |-> -1]
    /\ WEBHOOK_URL = "unread"
    /\ kaPc = "import"
    /\ kaMinute = 0
    /\ kaGets = 0
    /\ kaRequested = FALSE
    /\ kaLast = "none"

NextReport == Tick \/ LogMessage \/ scheduled_hourly_report

SpecReport == Init /\ [][NextReport]_vars

\* The /ok command, the job that writes the report it serves, and the clock.
NextQuota == Tick \/ OkCommand \/ scheduled_daily_report

SpecQuota == Init /\ [][NextQuota]_vars

\* Every handler of the bot, any number of them up to MaxInFlight suspended at an
\* await while another runs; the disk takes every write.
NextChat ==
    \/ HandleMessageStart(MaxUpdates, BOOLEAN) \/ HandleMessageAnswer
    \/ HandleMessageUpload \/ HandleMessageImage
    \/ HandlePhotoStart \/ HandlePhotoGetFile \/ HandlePhotoDownload
    \/ HandlePhotoGetFileRaises \/ HandlePhotoDownloadRaises \/ HandlePhotoAnswer
    \/ HandleVoiceStart \/ HandleVoiceGetFile \/ HandleVoiceDownload
    \/ HandleVoiceGetFileRaises \/ HandleVoiceDownloadRaises
    \/ HandleVoiceTranscribed
    \/ ClearCommand(MaxUpdates) \/ OkUpdate

SpecChat == Init /\ [][NextChat]_vars

\* The handlers that read or write user_contexts and report_requests, suspended
\* and resumed in any order.
NextMappings ==
    \/ HandleMessageStart(MaxUpdates, {FALSE}) \/ HandleMessageAnswer
    \/ HandlePhotoStart \/ HandlePhotoGetFile \/ HandlePhotoDownload
    \/ HandlePhotoGetFileRaises \/ HandlePhotoDownloadRaises \/ HandlePhotoAnswer
    \/ ClearCommand(MaxUpdates) \/ OkUpdate

SpecMappings == Init /\ [][NextMappings]_vars

\* Long conversations: texts that ask for no picture, and /clear.
NextContext ==
    \/ HandleMessageStart(MaxExchanges, {FALSE})
    \/ HandleMessageAnswer
    \/ ClearCommand(MaxExchanges)

SpecContext == Init /\ [][NextContext]_vars

\* keep_alive.py, a process of its own.  It is sequential and every call it makes
\* returns (the GET has a timeout, the sleep ends), so its next step is always taken.
NextKeepAlive == KeepAliveImport \/ KeepAliveEnter \/ KeepAliveGet \/ KeepAliveSleep

SpecKeepAlive == Init /\ [][NextKeepAlive]_vars /\ WF_vars(NextKeepAlive)

\* The whole program.
Next == NextReport \/ NextQuota \/ NextChat \/ NextContext \/ NextKeepAlive

Spec == Init /\ [][Next]_vars

\* ------------------------------------------------------------------ claims

\* C4: a log_message call leaves the day's log file as it was or with exactly one
\* entry added at its end; entries already in the file are never modified,
\* reordered or removed, also when reading or writing the file fails.
C4_LogAppendMonotonic ==
    [][logCalls' = logCalls + 1 =>
        LET before == FileEntries(dialogs, DialogsFile(now))
            after == FileEntries(dialogs', DialogsFile(now))
        IN  \/ after = before
            \/ /\ Len(after) = Len(before) + 1
               /\ SubSeq(after, 1, Len(before)) = before]_vars

\* C9: the total written by create_hourly_report is the number of entries of today's
\* log whose time t satisfies hour_start <= t < hour_start + 1 hour, hour_start being
\* the start of the clock hour the report runs in.
\* The time a timestamp string stands for: day, hour, minute, second, microsecond.
Num2(s, i) == (s[i] - Digit(0)) * 10 + (s[i + 1] - Digit(0))

FromIso(s) ==
    <<Num2(s, 9), Num2(s, 12), Num2(s, 15), Num2(s, 18),
      IF Len(s) > 19
      THEN Num2(s, 21) * 10000 + Num2(s, 23) * 100 + Num2(s, 25)
      ELSE 0>>

ClockHourStart(t) == <<t[1], t[2], 0, 0, 0>>

ClockHourEnd(t) == IF t[2] = 23 THEN <<t[1] + 1, 0, 0, 0, 0>> ELSE <<t[1], t[2] + 1, 0, 0, 0>>

EntriesOfHour(log, t) ==
    {i \in 1..Len(log) :
        /\ TimeLessEq(ClockHourStart(t), FromIso(log[i].timestamp))
        /\ TimeLess(FromIso(log[i].timestamp), ClockHourEnd(t))}

C9_HourlyWindow ==
    lastRun = "written" =>
        /\ StrfHour(now) \in DOMAIN hourly_reports
        /\ hourly_reports[StrfHour(now)].ok
        /\ hourly_reports[StrfHour(now)].data.total
              = Cardinality(EntriesOfHour(FileEntries(dialogs, DialogsFile(now)), now))

\* A report was written that counts an entry logged at the very start of its hour
\* and leaves out an entry of an earlier hour.
C9_Witness ==
    LET log == FileEntries(dialogs, DialogsFile(now))
    IN  /\ lastRun = "written"
        /\ hourly_reports[StrfHour(now)].data.total = 1
        /\ Len(log) = 2
        /\ \E i \in EntriesOfHour(log, now) :
               FromIso(log[i].timestamp) = ClockHourStart(now)

\* C1: per user and day at most 5 /ok requests are answered with the report, the
\* 'not created yet' or the read-error reply; every request after the fifth of
\* the day gets only the limit message and does not touch the report file; the
\* requests of other days and of other users do not count towards the 5.
Min(a, b) == IF a < b THEN a ELSE b

C1_ReportQuota ==
    /\ \A k \in DOMAIN okCount :
          /\ okServed[k] <= 5
          /\ okServed[k] = Min(okCount[k], 5)
    /\ lastOk.nth > 5 => lastOk.reply = "limit" /\ ~lastOk.touched_file
    /\ lastOk.nth \in 1..5 => lastOk.reply # "limit" /\ lastOk.touched_file

\* A sixth request of a day was refused although another user was served that day.
C1_Witness ==
    /\ lastOk.nth = 6
    /\ lastOk.reply = "limit"
    /\ \E k \in DOMAIN okCount : k[1] # lastOk.user /\ okServed[k] > 0

\* C2 as stated: the stored value of report_requests never exceeds the cap of 5.
C2_CounterCapped ==
    \A key \in DOMAIN report_requests : report_requests[key] <= 5

\* C2 as amended: the stored value for a (user, day) key is the number of /ok
\* requests that user sent on that day, which exceeds 5 from the sixth on; what
\* is capped at 5 is the number of requests served.
DateOfDay(d) == StrfDate(<<d, 0, 0, 0, 0>>)

C2_CounterCountsRequests ==
    /\ \A k \in DOMAIN okCount :
          GetCount(report_requests, ReportKey(k[1], DateOfDay(k[2]))) = okCount[k]
    /\ \A key \in DOMAIN report_requests :
          \E k \in DOMAIN okCount :
             key = ReportKey(k[1], DateOfDay(k[2])) /\ okCount[k] > 0 /\ okServed[k] <= 5

\* The stored value went past the cap, on the second day.
C2_Witness ==
    \E k \in DOMAIN okCount :
        /\ k[2] > 1
        /\ GetCount(report_requests, ReportKey(k[1], DateOfDay(k[2]))) > 5
        /\ okCount[<<k[1], 1>>] > 0

\* C3: every user's context holds at most 10 turns in every reachable state, the
\* state after get_gemini_response appended the answer included, and what is kept
\* is the most recent turns in their order.
IsSuffix(a, b) == Len(a) <= Len(b) /\ a = SubSeq(b, Len(b) - Len(a) + 1, Len(b))

C3_ContextBounded ==
    \A u \in Users :
        /\ Len(user_contexts[u]) <= 10
        /\ IsSuffix(user_contexts[u], fullHistory[u])

\* C5: a text, photo or voice handler sends exactly one reply whatever the outcome
\* of its external calls, and when an external call failed the reply is one of
\* the fixed error messages.
ErrorReplies == {"llm_error", "image_error", "photo_error", "voice_error"}

C5_OneReplyErrorOnFailure ==
    finished.kind # "none" =>
        /\ Len(finished.replies) = 1
        /\ finished.failed => finished.replies[1] \in ErrorReplies

\* C6: every text, photo or voice message adds exactly one entry to the day's log
\* whether or not its external calls succeed; for text and photo the entry is
\* written before any external call.
C6_OneLogEntryPerMessage ==
    finished.kind # "none" =>
        /\ finished.entries = 1
        /\ finished.kind \in {"text", "photo"} => finished.calls_before_log = 0

\* C7: /clear from user u empties u's context and leaves the contexts of the other
\* users, the report-request counters and the dialog log as they were; u's next
\* message is sent with an empty history.
C7_ClearContext ==
    /\ [][lastClear'.n = lastClear.n + 1 =>
            /\ user_contexts'[lastClear'.user] = <<>>
            /\ \A v \in Users \ {lastClear'.user} : user_contexts'[v] = user_contexts[v]
            /\ report_requests' = report_requests
            /\ dialogs' = dialogs]_vars
    /\ [](\A u \in Users : cleared[u] >= 0 => user_contexts[u] = <<>>)
    /\ [](lastCall.after_clear >= 0 => lastCall.history = <<>>)

\* The first message after a /clear that dropped turns went out with an empty
\* history.
C7_Witness ==
    /\ lastCall.after_clear > 0
    /\ lastCall.history = <<>>
    /\ user_contexts[lastCall.user] # <<>>

\* C10: whatever the interleaving of the handlers at their awaits, no update of a
\* context or of a report counter is lost, and in a context every user turn whose
\* LLM call succeeded is followed at once by its own answer.
C10_HandlersSerialized ==
    /\ \A u \in Users :
          /\ IsSuffix(user_contexts[u], fullHistory[u])
          /\ Len(user_contexts[u]) >= Min(Len(fullHistory[u]), 10)
          /\ \A i \in 1..Len(user_contexts[u]) :
                (user_contexts[u][i].role = "user" /\ user_contexts[u][i].parts \in answered)
                  => /\ i < Len(user_contexts[u])
                     /\ user_contexts[u][i + 1].role = "assistant"
                     /\ user_contexts[u][i + 1].parts = user_contexts[u][i].parts
    /\ \A k \in DOMAIN okCount :
          GetCount(report_requests, ReportKey(k[1], DateOfDay(k[2]))) = okCount[k]

\* Two handlers of one user overlapped: the exchange of the later update stands
\* before the exchange of the earlier one, while a report counter was counting.
C10_Witness ==
    /\ \E u \in Users : \E i, j \in 1..Len(user_contexts[u]) :
          /\ i < j
          /\ user_contexts[u][i].parts > user_contexts[u][j].parts
          /\ Len(user_contexts[u]) = 4
    /\ \E k \in DOMAIN okCount : okCount[k] > 0

\* C8: with the URL configured keep_alive never returns and repeats for ever one
\* GET, then one sleep of 14 minutes; a GET that fails or answers another status
\* than 200 neither ends the loop nor is repeated before the sleep.  Without the
\* URL it returns without a request.
C8_KeepAliveLoop ==
    /\ [](kaPc = "returned" => WEBHOOK_URL = "None" /\ ~kaRequested)
    /\ [](WEBHOOK_URL = "None" => ~kaRequested /\ kaPc \in {"keep_alive", "returned"})
    /\ [](kaGets <= 1 /\ (kaPc = "sleep" <=> kaGets = 1))
    /\ [][kaPc = "get" => kaPc' = "sleep" /\ kaGets' = 1 /\ kaMinute' = kaMinute]_vars
    /\ [][kaPc = "sleep" =>
            kaPc' = "get" /\ kaGets' = 0 /\ kaMinute' = (kaMinute + 14) % (24 * 60)]_vars
    /\ (WEBHOOK_URL = "None") ~> (kaPc = "returned")
    /\ (WEBHOOK_URL = "url") ~> (kaPc = "get")
    /\ (kaPc = "get") ~> (kaPc = "sleep")
    /\ (kaPc = "sleep") ~> (kaPc = "get")

\* The loop went on to the next GET after a GET that raised and the sleep after it.
C8_Witness ==
    /\ kaPc = "get"
    /\ kaLast = "exception"
    /\ kaMinute = 28

\* C11: whenever no handler invocation is under way, every user's context is a
\* sequence of at most 5 user-assistant pairs: it starts with a user turn,
\* alternates user, assistant, user, assistant, ... and ends with an assistant
\* turn, whatever LLM calls succeeded or failed and whatever was trimmed.
C11_ContextAlternates ==
    handlers = <<>> =>
        \A u \in Users :
            LET context == user_contexts[u]
            IN  /\ Len(context) % 2 = 0
                /\ Len(context) <= 2 * 5
                /\ \A i \in 1..Len(context) :
                       context[i].role = IF i % 2 = 1 THEN "user" ELSE "assistant"

=============================================================================
